---- MODULE Spec2Model ----
(***************************************************************************)
(* vl_imreadjpeg2.cu: the process-wide Batch (item queue, cursor, counter, *)
(* quit flag, configuration), the ReaderTask worker threads, the MEX       *)
(* dispatcher mexFunction and the atExit hook.                             *)
(*                                                                         *)
(* Granularity.  Every critical section of the queue mutex is one action.  *)
(* The statements prefetch() executes WITHOUT the mutex (cursor reset,     *)
(* counter reset, per-item promotion to fetch with notify_one) are one     *)
(* action each, and so is the work a reader does on a borrowed item        *)
(* outside the mutex.  A reader's test of the cursor and its entry into    *)
(* the condition wait are two actions: it holds the mutex in between       *)
(* (state "towait"), which blocks every critical section but not the       *)
(* unlocked statements of prefetch().                                      *)
(***************************************************************************)
EXTENDS Integers, Sequences, FiniteSets, TLC

\* Bounds of the model.
MaxLen == 2
MaxThreads == 2

\* File names and what the image reader does with them.
Names == {"a", "m", "t"}
MissingNames == {"m"}
TruncatedNames == {"t"}

VARIABLES
  items,                \* Batch::items, in order; each a record (see NewItem)
  nextItem,             \* Batch::nextItem (the cursor)
  numReturnedItems,     \* Batch::numReturnedItems
  uploads,              \* history: copies of the pack to the GPU enqueued for this batch
  quit,                 \* Batch::quit
  config,               \* Batch::packingMethod, Batch::resizeMethod, Batch::gpuMode
  batchIsInitialized,   \* global batchIsInitialized
  readers,              \* global readers; each [pc, item]
  pc,                   \* position of the MATLAB thread
  args,                 \* options and filenames of the call in progress (see NoArgs)
  requestedNumThreads,  \* local of mexFunction
  di,                   \* loop index of the MATLAB thread (i or r in the source)
  ret,                  \* where Batch::clear() returns to
  sameAsPrefeteched,    \* local of mexFunction
  result,               \* how the last call ended: "none", "ok", "error"
  pre,                  \* history: <<snapshot at call entry>> until the batch is reused or
                        \* the options are accepted
  repeat,               \* history: "prefetch" or "collect" when this call directly follows
                        \* a normal call of that kind with the same list, else "none"
  regs,                 \* history: registerItem calls made by the call in progress
  out,                  \* out[OUT_IMAGES] of the call in progress (see NoOut)
  plan                  \* PlanSpec: the item Batch::prefetch plans, with its plan

vars == <<items, nextItem, numReturnedItems, uploads, quit, config, batchIsInitialized,
          readers, pc, args, requestedNumThreads, di, ret, sameAsPrefeteched,
          result, pre, repeat, regs, out, plan>>

batchVars == <<items, nextItem, numReturnedItems, uploads, quit, config>>
callVars == <<args, requestedNumThreads, sameAsPrefeteched, result, pre, repeat, regs, out>>

----------------------------------------------------------------------------
\* Inputs.  Each input of a call is drawn by the action of the statement
\* that first uses it (the Prefetch option with the filenames); until then
\* args holds the default of NoArgs.

FileLists == UNION {[1..n -> Names] : n \in 0..MaxLen}

PackingMethods == {"individualArrays", "singleArray"}
ResizeMethods == {"noResize", "resizeShortestSide", "fixedSize"}

\* numThreads: <<>> when the NumThreads option is not given, else <<value>>;
\* it is kept until the pool is prepared.
NumThreadsOptions == {<<>>} \cup {<<r>> : r \in 0..MaxThreads}

NoArgs == [filenames |-> <<>>, prefetch |-> FALSE, packingMethod |-> "individualArrays",
           resizeMethod |-> "noResize", numThreads |-> <<>>]

\* out[OUT_IMAGES]: the cells of the cell array (<<>> an empty cell, <<i>>
\* the array of item i, <<"pack">> the pack), the items a warning named,
\* and the items whose array mxSetCell stored at an index outside the cell
\* array.
NoOut == [cells |-> <<>>, warnings |-> {}, overrun |-> {}]

----------------------------------------------------------------------------
\* Batch.

DefaultConfig ==
  [packingMethod |-> "individualArrays", resizeMethod |-> "noResize", gpuMode |-> FALSE]

NewItem(name) ==
  [name |-> name, state |-> "prefetch", borrowed |-> FALSE, error |-> "Success",
   probes |-> 0, fetches |-> 0]

ItemNames(its) == [i \in 1..Len(its) |-> its[i].name]

\* The mutex is held across steps only by a reader between its test of the
\* cursor and its entry into waitNextItemToBorrow.wait.
MutexFree == \A w \in DOMAIN readers : readers[w].pc # "towait"

\* notify_one / notify_all on waitNextItemToBorrow.
NotifyOne(rs) ==
  LET W == {w \in DOMAIN rs : rs[w].pc = "waiting"}
  IN  IF W = {} THEN {rs} ELSE {[rs EXCEPT ![w].pc = "loop"] : w \in W}

\* A notify_all that wakes nobody (faulty variant).
NotifyNobody(rs) == rs

NotifyAll(rs) ==
  [w \in DOMAIN rs |-> IF rs[w].pc = "waiting" THEN [rs[w] EXCEPT !.pc = "loop"] ELSE rs[w]]

\* ImageReader::readShape and ImageReader::readPixels, by file.
ReadShape(name) == IF name \in MissingNames THEN "Failed" ELSE "Success"
ReadPixels(name) == IF name \in MissingNames \cup TruncatedNames THEN "Failed" ELSE "Success"

\* A sync() that does not wait (faulty variant: the cursor is then reset
\* while items are still borrowed).
SyncWithoutWait(its) == TRUE

\* Batch::sync: every item is ready.
SyncDone(its) == \A i \in DOMAIN its : its[i].state = "ready"

\* A clear that deletes every item without waiting (faulty variant).
ClearWithoutWait(its, k) == Len(its)

\* Batch::clear, with k items already deleted: the index where the loop
\* next blocks (the number of items deleted when it does).
ClearStop(its, k) ==
  LET B == {i \in (k+1)..Len(its) : its[i].borrowed}
  IN  IF B = {} THEN Len(its) ELSE (CHOOSE i \in B : \A j \in B : i <= j) - 1

\* A clear that forgets to reset the cursor and the counter (faulty
\* variant).
ClearWithoutReset(k) ==
  LET stop == ClearStop(items, k)
  IN  IF stop = Len(items)
      THEN /\ items' = <<>>
           /\ nextItem' = Len(items)
           /\ numReturnedItems' = numReturnedItems
           /\ uploads' = 0
           /\ pc' = ret
           /\ ret' = "none"
           /\ di' = 0
      ELSE /\ items' = items
           /\ nextItem' = Len(items)
           /\ numReturnedItems' = numReturnedItems
           /\ uploads' = uploads
           /\ pc' = "clear_wait"
           /\ ret' = ret
           /\ di' = stop

\* A clear that returns without deleting the items (faulty variant).
ClearKeepsItems(k) ==
  /\ items' = items
  /\ nextItem' = 0
  /\ numReturnedItems' = 0
  /\ uploads' = 0
  /\ pc' = ret
  /\ ret' = "none"
  /\ di' = 0

\* Batch::clear from item k on: to its end, or to its next wait.
ClearFrom(k) ==
  LET stop == ClearStop(items, k)
  IN  IF stop = Len(items)
      THEN /\ items' = <<>>
           /\ nextItem' = 0
           /\ numReturnedItems' = 0
           /\ uploads' = 0
           /\ pc' = ret
           /\ ret' = "none"
           /\ di' = 0
      ELSE /\ items' = items
           /\ nextItem' = Len(items)
           /\ numReturnedItems' = numReturnedItems
           /\ uploads' = uploads
           /\ pc' = "clear_wait"
           /\ ret' = ret
           /\ di' = stop

\* Batch::clear up to its first wait (or to its end).
clear ==
  /\ pc = "clear"
  /\ MutexFree
  /\ ClearFrom(0)
  /\ UNCHANGED <<quit, config, batchIsInitialized, readers, callVars, plan>>

\* Batch::clear woken from waitCompletion.wait with items[di] returned.
clearWait ==
  /\ pc = "clear_wait"
  /\ MutexFree
  /\ ~items[di + 1].borrowed
  /\ ClearFrom(di)
  /\ UNCHANGED <<quit, config, batchIsInitialized, readers, callVars, plan>>

----------------------------------------------------------------------------
\* ReaderTask::entryPoint.

\* Batch::borrowNextItem up to its return or to its decision to wait.
borrowNextItem(w) ==
  /\ w \in DOMAIN readers
  /\ readers[w].pc = "loop"
  /\ MutexFree
  /\ IF quit
     THEN /\ readers' = [readers EXCEPT ![w].pc = "exited"]
          /\ UNCHANGED <<items, nextItem>>
     ELSE IF nextItem < Len(items)
     THEN /\ readers' = [readers EXCEPT ![w] = [pc |-> "has", item |-> nextItem + 1]]
          /\ items' = [items EXCEPT ![nextItem + 1].borrowed = TRUE]
          /\ nextItem' = nextItem + 1
     ELSE /\ readers' = [readers EXCEPT ![w].pc = "towait"]
          /\ UNCHANGED <<items, nextItem>>
  /\ UNCHANGED <<numReturnedItems, uploads, quit, config, batchIsInitialized, pc, di, ret, callVars, plan>>

\* waitNextItemToBorrow.wait(mutex): releases the mutex and blocks.
waitNextItemToBorrow(w) ==
  /\ w \in DOMAIN readers
  /\ readers[w].pc = "towait"
  /\ readers' = [readers EXCEPT ![w].pc = "waiting"]
  /\ UNCHANGED <<batchVars, batchIsInitialized, pc, di, ret, callVars, plan>>

\* A condition wait may return without a notification.
spuriousWakeup(w) ==
  /\ w \in DOMAIN readers
  /\ readers[w].pc = "waiting"
  /\ readers' = [readers EXCEPT ![w].pc = "loop"]
  /\ UNCHANGED <<batchVars, batchIsInitialized, pc, di, ret, callVars, plan>>

\* The work of entryPoint on its borrowed item, outside the mutex.
Worked(it) ==
  IF it.error # "Success" THEN it
  ELSE IF it.state = "prefetch"
       THEN [it EXCEPT !.error = ReadShape(it.name), !.probes = it.probes + 1]
  ELSE IF it.state = "fetch"
       THEN [it EXCEPT !.error = ReadPixels(it.name), !.fetches = it.fetches + 1]
  ELSE it

entryPoint(w) ==
  /\ w \in DOMAIN readers
  /\ readers[w].pc = "has"
  /\ items' = [items EXCEPT ![readers[w].item] = Worked(items[readers[w].item])]
  /\ readers' = [readers EXCEPT ![w].pc = "worked"]
  /\ UNCHANGED <<nextItem, numReturnedItems, uploads, quit, config, batchIsInitialized,
                 pc, di, ret, callVars, plan>>

\* The test without its comparison of the counter with the number of items.
UploadsAtEachReturn(it, returned, size, c) ==
  /\ it.state = "fetch"
  /\ c.packingMethod = "singleArray"
  /\ c.gpuMode

\* Batch::returnItem: the test that guards cudaMemcpyAsync of the pack (the
\* copy is taken to be enqueued without error).
UploadsPack(it, returned, size, c) ==
  /\ it.state = "fetch"
  /\ returned = size
  /\ c.packingMethod = "singleArray"
  /\ c.gpuMode

\* A return that leaves the item marked as borrowed (faulty variant).
ReturnedStillBorrowed(it) == [it EXCEPT !.state = "ready"]

\* Batch::returnItem: item->borrowed = false, item->state = Item::ready.
Returned(it) == [it EXCEPT !.borrowed = FALSE, !.state = "ready"]

returnItem(w) ==
  /\ w \in DOMAIN readers
  /\ readers[w].pc = "worked"
  /\ MutexFree
  /\ numReturnedItems' = numReturnedItems + 1
  /\ uploads' = IF UploadsPack(items[readers[w].item], numReturnedItems', Len(items), config)
                THEN uploads + 1 ELSE uploads
  /\ items' = [items EXCEPT ![readers[w].item] = Returned(items[readers[w].item])]
  /\ readers' = [readers EXCEPT ![w] = [pc |-> "loop", item |-> 0]]
  /\ UNCHANGED <<nextItem, quit, config, batchIsInitialized, pc, di, ret, callVars, plan>>

----------------------------------------------------------------------------
\* mexFunction.

\* What only the MATLAB thread writes: the pool, the registered items, the
\* stored configuration.  (Readers move the cursor and the counter while
\* a call runs.)
Snapshot ==
  [nreaders |-> Len(readers), names |-> ItemNames(items), config |-> config,
   batchIsInitialized |-> batchIsInitialized]

\* The requested count taken as given (faulty variant: no std::max).
RequestedAsGiven(r) == r

\* requestedNumThreads = std::max(requestedNumThreads, 1)
RequestedNumThreads(r) == IF r > 1 THEN r ELSE 1

\* A comparison that rejects the last registered name (faulty variant:
\* i + 1 < batch.getNumberOfItems()).
SameButLast(fs, its) ==
  \A i \in 1..Len(fs) : i < Len(its) /\ its[i].name = fs[i]

\* sameAsPrefeteched after the loop over the incoming filenames.
SameAsPrefetched(fs, its) ==
  \A i \in 1..Len(fs) : i <= Len(its) /\ its[i].name = fs[i]

\* "PACK must be used in combination with resizing to a fixed size."
OptionsCompatible(a) ==
  ~(a.packingMethod = "singleArray" /\ a.resizeMethod # "fixedSize")

\* Batch::init, called when the batch is not initialized.  Its finalize()
\* finds no item and no reader (readers is empty whenever
\* batchIsInitialized is false).
init ==
  IF batchIsInitialized
  THEN UNCHANGED <<batchVars, batchIsInitialized>>
  ELSE /\ items = <<>>
       /\ quit' = FALSE
       /\ nextItem' = 0
       /\ numReturnedItems' = 0
       /\ uploads' = 0
       /\ config' = DefaultConfig
       /\ batchIsInitialized' = TRUE
       /\ UNCHANGED items

\* A call that goes on to batch.sync() whatever the Prefetch option says
\* (faulty variant).
AlwaysSync(a, pf) ==
  /\ args' = [a EXCEPT !.prefetch = pf]
  /\ pc' = "final_sync" /\ result' = result

\* "Done if prefetching only": if (prefetch) { return ; }, else on to
\* batch.sync().
PrefetchOnly(a, pf) ==
  /\ args' = [a EXCEPT !.prefetch = pf]
  /\ IF pf
     THEN pc' = "done" /\ result' = "ok"
     ELSE pc' = "final_sync" /\ result' = result

\* Entry: option parsing, "Prepare batch" and the size test of "Prepare
\* reader tasks" (all local to the MATLAB thread: Batch::init runs only
\* while no reader exists).  valid is FALSE when an option value is rejected
\* while parsing (vlmxError).  A call made directly after a call that
\* returned normally is made with the same filenames and marked in repeat.
mexFunction(nt, valid) ==
  /\ \/ pc = "idle" /\ repeat' = "none"
     \/ pc = "done" /\ result = "ok"
        /\ repeat' = IF args.prefetch THEN "prefetch" ELSE "collect"
  /\ pre' = <<Snapshot>>
  /\ regs' = 0
  /\ sameAsPrefeteched' = TRUE
  /\ di' = 0
  /\ IF valid
     THEN /\ args' = [NoArgs EXCEPT !.filenames = args.filenames, !.numThreads = nt]
          /\ requestedNumThreads' =
               RequestedNumThreads(IF nt = <<>> THEN Len(readers) ELSE nt[1])
          /\ result' = "none"
          /\ init
          /\ IF Len(readers) # requestedNumThreads'
             THEN pc' = "clear" /\ ret' = "readers_loop"
             ELSE pc' = "filenames" /\ ret' = ret
     ELSE /\ args' = [NoArgs EXCEPT !.filenames = args.filenames]
          /\ requestedNumThreads' = 0
          /\ pc' = "done"
          /\ result' = "error"
          /\ ret' = ret
          /\ UNCHANGED <<batchVars, batchIsInitialized>>
  /\ out' = NoOut
  /\ UNCHANGED <<readers, plan>>

\* The call has returned to MATLAB.
Return ==
  /\ pc = "done"
  /\ pc' = "idle"
  /\ args' = NoArgs
  /\ result' = "none"
  /\ pre' = <<>>
  /\ repeat' = "none"
  /\ regs' = 0
  /\ sameAsPrefeteched' = TRUE
  /\ requestedNumThreads' = 0
  /\ out' = NoOut
  /\ UNCHANGED <<batchVars, batchIsInitialized, readers, di, ret, plan>>

\* readers.push_back(new ReaderTask()), or the end of the loop.
readersPush ==
  /\ pc = "readers_loop"
  /\ IF di < requestedNumThreads
     THEN /\ readers' = Append(readers, [pc |-> "nothread", item |-> 0])
          /\ pc' = "reader_init"
          /\ di' = di
     ELSE /\ readers' = readers
          /\ pc' = "filenames"
          /\ di' = 0
  /\ UNCHANGED <<batchVars, batchIsInitialized, ret, callVars, plan>>

\* readers[r]->init(&batch, r): ReaderTask::finalize joins the thread the
\* slot holds, then a new thread is started.
readerInit ==
  /\ pc = "reader_init"
  /\ readers[di + 1].pc \in {"nothread", "exited"}
  /\ readers' = [readers EXCEPT ![di + 1] = [pc |-> "loop", item |-> 0]]
  /\ di' = di + 1
  /\ pc' = "readers_loop"
  /\ UNCHANGED <<batchVars, batchIsInitialized, ret, callVars, plan>>

\* "Extract filenames as strings" and the test of sameAsPrefeteched.  When
\* the pending batch is reused no statement reads the packing and resize
\* options of the call: the Pack option is drawn here for the record, the
\* Resize option being left out of the call (pm = "singleArray" is then a
\* call asking for a pack without a fixed size).
extractFilenames(fs, pm, pf) ==
  /\ pc = "filenames"
  /\ repeat # "none" => fs = args.filenames
  /\ sameAsPrefeteched' = SameAsPrefetched(fs, items)
  /\ IF sameAsPrefeteched'
     THEN /\ PrefetchOnly([args EXCEPT !.filenames = fs, !.packingMethod = pm,
                                         !.numThreads = <<>>], pf)
          /\ ret' = ret
          /\ pre' = <<>>
     ELSE /\ pm = NoArgs.packingMethod
          /\ args' = [args EXCEPT !.filenames = fs, !.numThreads = <<>>,
                                   !.prefetch = pf]
          /\ pc' = "clear"
          /\ result' = result
          /\ ret' = "new_cycle"
          /\ pre' = pre
  /\ UNCHANGED <<batchVars, batchIsInitialized, readers, di,
                 requestedNumThreads, repeat, regs, out, plan>>

\* After batch.clear(): the compatibility check, then the setters.
newCycle(pm, rm, gpu) ==
  /\ pc = "new_cycle"
  /\ args' = [args EXCEPT !.packingMethod = pm, !.resizeMethod = rm]
  /\ IF OptionsCompatible(args')
     THEN /\ config' = [packingMethod |-> pm, resizeMethod |-> rm, gpuMode |-> gpu]
          /\ pc' = IF Len(args.filenames) > 0 THEN "register" ELSE "prefetch_sync"
          /\ result' = result
          /\ pre' = <<>>
     ELSE /\ config' = config
          /\ pc' = "done"
          /\ result' = "error"
          /\ pre' = pre
  /\ di' = 0
  /\ UNCHANGED <<items, nextItem, numReturnedItems, uploads, quit, batchIsInitialized, readers,
                 ret, requestedNumThreads, sameAsPrefeteched, repeat, regs, out, plan>>

\* Batch::registerItem(filenames[di]).
registerItem ==
  /\ pc = "register"
  /\ MutexFree
  /\ items' = Append(items, NewItem(args.filenames[di + 1]))
  /\ readers' \in NotifyOne(readers)
  /\ di' = di + 1
  /\ regs' = regs + 1
  /\ pc' = IF di + 1 < Len(args.filenames) THEN "register" ELSE "prefetch_sync"
  /\ UNCHANGED <<nextItem, numReturnedItems, uploads, quit, config, batchIsInitialized, ret,
                 args, requestedNumThreads, sameAsPrefeteched, result, pre, repeat, out, plan>>

\* Batch::prefetch: sync().
prefetchSync ==
  /\ pc = "prefetch_sync"
  /\ MutexFree
  /\ SyncDone(items)
  /\ pc' = "reset_next"
  /\ UNCHANGED <<batchVars, batchIsInitialized, readers, di, ret, callVars, plan>>

\* Batch::prefetch: nextItem = 0 (no mutex).
resetNextItem ==
  /\ pc = "reset_next"
  /\ nextItem' = 0
  /\ pc' = "reset_returned"
  /\ UNCHANGED <<items, numReturnedItems, uploads, quit, config, batchIsInitialized, readers,
                 di, ret, callVars, plan>>

\* Batch::prefetch: numReturnedItems = 0 (no mutex).
resetNumReturnedItems ==
  /\ pc = "reset_returned"
  /\ numReturnedItems' = 0
  /\ di' = 0
  /\ IF Len(items) > 0
     THEN pc' = "promote" /\ UNCHANGED <<args, result>>
     ELSE PrefetchOnly(args, args.prefetch)
  /\ UNCHANGED <<items, nextItem, uploads, quit, config, batchIsInitialized, readers, ret,
                 requestedNumThreads, sameAsPrefeteched, pre, repeat, regs, out, plan>>

\* A promotion that sends the item back to the probe phase (faulty variant:
\* item->state = Item::prefetch).
Reprobed(it) == [it EXCEPT !.state = "prefetch"]

\* Batch::prefetch: one turn of the loop over the items: the plan, then
\* item->state = Item::fetch and notify_one (no mutex).
Promoted(it) == [it EXCEPT !.state = "fetch"]

promote ==
  /\ pc = "promote"
  /\ items' = [items EXCEPT ![di + 1] = Promoted(items[di + 1])]
  /\ readers' \in NotifyOne(readers)
  /\ IF di + 1 < Len(items)
     THEN pc' = "promote" /\ di' = di + 1
          /\ UNCHANGED <<args, result>>
     ELSE PrefetchOnly(args, args.prefetch) /\ di' = 0
  /\ UNCHANGED <<nextItem, numReturnedItems, uploads, quit, config, batchIsInitialized, ret,
                 requestedNumThreads, sameAsPrefeteched, pre, repeat, regs, out, plan>>

\* "Return result": batch.sync().
finalSync ==
  /\ pc = "final_sync"
  /\ MutexFree
  /\ SyncDone(items)
  /\ pc' = "emit"
  /\ UNCHANGED <<batchVars, batchIsInitialized, readers, di, ret, callVars, plan>>

\* "Return result" after batch.sync(): the switch over
\* batch.getPackingMethod().  The cell array has one cell per incoming
\* filename (n); the loop of the individual case runs over the items of
\* the batch.
Output(its, n, packing) ==
  IF packing = "singleArray"
  THEN [cells |-> << <<"pack">> >>, warnings |-> {}, overrun |-> {}]
  ELSE [cells |-> [i \in 1..n |->
                     IF i \in DOMAIN its /\ its[i].error = "Success" THEN <<i>> ELSE <<>>],
        warnings |-> {i \in DOMAIN its : its[i].error # "Success"},
        overrun |-> {i \in DOMAIN its : i > n /\ its[i].error = "Success"}]

\* The results are handed to MATLAB; then "Finalize": batch.clear().  An
\* mxSetCell outside the cell array is undefined behaviour: the call goes
\* on with the heap damaged, or the process dies with its threads.
emit(crash) ==
  /\ pc = "emit"
  /\ out' = Output(items, Len(args.filenames), config.packingMethod)
  /\ crash => out'.overrun # {}
  /\ IF crash
     THEN /\ pc' = "crashed"
          /\ readers' = <<>>
          /\ UNCHANGED <<ret, result>>
     ELSE /\ pc' = "clear"
          /\ ret' = "done"
          /\ result' = "ok"
          /\ readers' = readers
  /\ UNCHANGED <<batchVars, batchIsInitialized, di,
                 args, requestedNumThreads, sameAsPrefeteched, pre, repeat, regs, plan>>

----------------------------------------------------------------------------
\* atExit.

atExit ==
  /\ pc = "idle"
  /\ batchIsInitialized \/ readers # <<>>
  /\ IF batchIsInitialized
     THEN pc' = "clear" /\ ret' = "exit_quit"
     ELSE pc' = "exit_join" /\ ret' = ret
  /\ di' = 0
  /\ UNCHANGED <<batchVars, batchIsInitialized, readers, callVars, plan>>

\* Batch::finalize after clear(): quit = true, notify_all; then
\* batchIsInitialized = false.
finalize ==
  /\ pc = "exit_quit"
  /\ MutexFree
  /\ quit' = TRUE
  /\ readers' = NotifyAll(readers)
  /\ batchIsInitialized' = FALSE
  /\ pc' = "exit_join"
  /\ di' = 0
  /\ UNCHANGED <<items, nextItem, numReturnedItems, uploads, config, ret, callVars, plan>>

\* readers[r]->finalize() joins the thread; after the loop readers.clear().
exitJoin ==
  /\ pc = "exit_join"
  /\ IF di < Len(readers)
     THEN /\ readers[di + 1].pc \in {"nothread", "exited"}
          /\ di' = di + 1
          /\ pc' = pc
          /\ readers' = readers
     ELSE /\ di' = 0
          /\ pc' = "idle"
          /\ readers' = <<>>
  /\ UNCHANGED <<batchVars, batchIsInitialized, ret, callVars, plan>>

----------------------------------------------------------------------------

\* The globals as constructed when the MEX file is loaded.
Constructed ==
  /\ items = <<>>
  /\ nextItem = 0
  /\ numReturnedItems = 0
  /\ uploads = 0
  /\ quit = TRUE
  /\ config = DefaultConfig
  /\ batchIsInitialized = FALSE
  /\ readers = <<>>
  /\ pc = "idle"
  /\ args = NoArgs
  /\ requestedNumThreads = 0
  /\ di = 0
  /\ ret = "none"
  /\ sameAsPrefeteched = TRUE
  /\ result = "none"
  /\ pre = <<>>
  /\ repeat = "none"
  /\ regs = 0
  /\ out = NoOut

NoPlan == [stage |-> "none"]

Init == Constructed /\ plan = NoPlan

Slots == 1..(MaxThreads + 1)

Reader(w) ==
  \/ borrowNextItem(w)
  \/ waitNextItemToBorrow(w)
  \/ entryPoint(w)
  \/ returnItem(w)

Dispatcher ==
  \/ readersPush
  \/ readerInit
  \/ \E fs \in FileLists, pm \in PackingMethods, pf \in BOOLEAN :
       extractFilenames(fs, pm, pf)
  \/ clear
  \/ clearWait
  \/ \E pm \in PackingMethods, rm \in ResizeMethods, gpu \in BOOLEAN : newCycle(pm, rm, gpu)
  \/ registerItem
  \/ prefetchSync
  \/ resetNextItem
  \/ resetNumReturnedItems
  \/ promote
  \/ finalSync
  \/ \E crash \in BOOLEAN : emit(crash)
  \/ Return
  \/ finalize
  \/ exitJoin

Next ==
  \/ \E nt \in NumThreadsOptions, valid \in BOOLEAN : mexFunction(nt, valid)
  \/ atExit
  \/ Dispatcher
  \/ \E w \in Slots : Reader(w)
  \/ \E w \in Slots : spuriousWakeup(w)

Spec == Init /\ [][Next]_vars

\* Every thread that can take a step eventually does; a condition wait is
\* not obliged to return without a notification, and MATLAB is not obliged
\* to call again or to unload the MEX file.
FairSpec ==
  /\ Spec
  /\ WF_vars(Dispatcher)
  /\ \A w \in Slots : WF_vars(Reader(w))

\* The calls whose options are accepted and leave the batch configuration at
\* its defaults (individual arrays, no resizing, CPU): the same actions, the
\* Pack, Resize and Gpu options not given.
DefaultDispatcher ==
  \/ readersPush
  \/ readerInit
  \/ \E fs \in FileLists, pf \in BOOLEAN :
       extractFilenames(fs, NoArgs.packingMethod, pf)
  \/ clear
  \/ clearWait
  \/ newCycle(NoArgs.packingMethod, NoArgs.resizeMethod, DefaultConfig.gpuMode)
  \/ registerItem
  \/ prefetchSync
  \/ resetNextItem
  \/ resetNumReturnedItems
  \/ promote
  \/ finalSync
  \/ \E crash \in BOOLEAN : emit(crash)
  \/ Return
  \/ finalize
  \/ exitJoin

DefaultNext ==
  \/ \E nt \in NumThreadsOptions : mexFunction(nt, TRUE)
  \/ atExit
  \/ DefaultDispatcher
  \/ \E w \in Slots : Reader(w)
  \/ \E w \in Slots : spuriousWakeup(w)

\* Fair locking: a thread that finds the mutex free again and again
\* eventually takes it, and a thread that can run eventually runs.  A
\* condition wait is still not obliged to return without a notification, and
\* MATLAB is not obliged to call again or to unload the MEX file.
FairLockSpec ==
  /\ Init /\ [][DefaultNext]_vars
  /\ SF_vars(DefaultDispatcher)
  /\ \A w \in Slots : SF_vars(Reader(w))

----------------------------------------------------------------------------
\* The plan Batch::prefetch computes for one item (lines 564-652).
\*
\* A double is [k, n, d]: the rational n/d (d > 0), +infinity or NaN; only
\* values >= 0 occur.  The operations are exact on rationals (the rounding
\* error of double arithmetic is not modelled) and follow IEEE 754 on
\* infinity and NaN.

Fin(n, d) == [k |-> "fin", n |-> n, d |-> d]
PosInf == [k |-> "inf", n |-> 0, d |-> 1]
NaN == [k |-> "nan", n |-> 0, d |-> 1]

IsNaN(x) == x.k = "nan"
IsZero(x) == x.k = "fin" /\ x.n = 0

\* x < y on doubles: false when either is NaN.
Less(x, y) ==
  /\ ~IsNaN(x) /\ ~IsNaN(y)
  /\ x.k = "fin"
  /\ (y.k = "inf" \/ x.n * y.d < y.n * x.d)

Mul(x, y) ==
  IF IsNaN(x) \/ IsNaN(y) THEN NaN
  ELSE IF x.k = "inf" \/ y.k = "inf"
       THEN (IF IsZero(x) \/ IsZero(y) THEN NaN ELSE PosInf)
  ELSE Fin(x.n * y.n, x.d * y.d)

Div(x, y) ==
  IF IsNaN(x) \/ IsNaN(y) THEN NaN
  ELSE IF x.k = "inf" THEN (IF y.k = "inf" THEN NaN ELSE PosInf)
  ELSE IF y.k = "inf" THEN Fin(0, 1)
  ELSE IF IsZero(y) THEN (IF IsZero(x) THEN NaN ELSE PosInf)
  ELSE Fin(x.n * y.d, x.d * y.n)

Add(x, y) ==
  IF IsNaN(x) \/ IsNaN(y) THEN NaN
  ELSE IF x.k = "inf" \/ y.k = "inf" THEN PosInf
  ELSE Fin(x.n * y.d + y.n * x.d, x.d * y.d)

\* x - y for x >= y.
Sub(x, y) ==
  IF IsNaN(x) \/ IsNaN(y) THEN NaN
  ELSE IF y.k = "inf" THEN NaN
  ELSE IF x.k = "inf" THEN PosInf
  ELSE Fin(x.n * y.d - y.n * x.d, x.d * y.d)

\* std::min(a, b) is (b < a) ? b : a; std::max(a, b) is (a < b) ? b : a.
StdMin(a, b) == IF Less(b, a) THEN b ELSE a
StdMax(a, b) == IF Less(a, b) THEN b ELSE a

\* round(): half away from zero.
Round(x) == IF x.k = "fin" THEN Fin((2 * x.n + x.d) \div (2 * x.d), 1) ELSE x

\* Conversion of a double to int or size_t: truncation; of infinity or NaN
\* it is undefined behaviour, u being what the build produces.
ToInt(x, u) == IF x.k = "fin" THEN x.n \div x.d ELSE u

\* Integer division and remainder of C (truncation towards zero); a
\* remainder by zero is undefined behaviour.
CDiv(a, b) == IF a >= 0 THEN a \div b ELSE -((-a) \div b)
CRem(a, m, u) == IF m > 0 THEN a % m ELSE IF m < 0 THEN a % (-m) ELSE u

\* Bound of the plan: the sides of an image and of a requested size.
MaxSide == 2

\* What a conversion with undefined behaviour may produce: a negative
\* value, zero, a value larger than any side.
Undefined == {-(MaxSide + 1), 0, MaxSide + 1}

\* Values of the crop options, of rand() / RAND_MAX and of rand().
AnisotropyValues == {Fin(0, 1), Fin(1, 1), Fin(2, 1), PosInf}
CropSizeValues == {Fin(0, 1), Fin(1, 2), Fin(1, 1)}
UnitDraws == {Fin(0, 1), Fin(1, 2), Fin(1, 1)}
RandDraws == 0..MaxSide
CropLocations == {"cropCenter", "cropRandom"}

\* The option validation of mexFunction: the ranges it does not reject.
CropAnisotropyLegal(lo, hi) == ~(Less(lo, Fin(0, 1)) \/ Less(hi, lo))
CropSizeLegal(lo, hi) == ~(Less(lo, Fin(0, 1)) \/ Less(hi, lo) \/ Less(Fin(1, 1), hi))

\* The resize options: the method with resizeHeight and resizeWidth (for
\* the shortest side, resizeHeight is the target).
ResizeOptions ==
  {[resizeMethod |-> "noResize", resizeHeight |-> -1, resizeWidth |-> -1]}
  \cup {[resizeMethod |-> "resizeShortestSide", resizeHeight |-> sz, resizeWidth |-> sz] :
          sz \in 1..MaxSide}
  \cup {[resizeMethod |-> "fixedSize", resizeHeight |-> rh, resizeWidth |-> rw] :
          rh \in 1..MaxSide, rw \in 1..MaxSide}

\* IEEE 754 binary64 for the positive quotients and products of the
\* shortest-side scale.  A double is [digits |-> <<d1, .., d4>>, exp |-> e]:
\* the 53-bit significand is the leading 1 followed by four digits of 13
\* bits, and the value is (1 + d1/B + d2/B^2 + d3/B^3 + d4/B^4) * 2^e with
\* B = 2^13.  Rounding is to nearest, ties to even.  The operands are
\* integers below 2^13.
DigitBits == 13
Digits == 4

RECURSIVE Pow2(_)
Pow2(n) == IF n = 0 THEN 1 ELSE 2 * Pow2(n - 1)

Base == Pow2(DigitBits)

\* The exponent e of a / b: 2^e <= a / b < 2^(e + 1).
RECURSIVE Exponent(_, _)
Exponent(a, b) ==
  IF a >= 2 * b THEN Exponent(a, 2 * b) + 1
  ELSE IF a < b THEN Exponent(2 * a, b) - 1
  ELSE 0

\* The next n digits of the expansion of r / b in base B (r < b).
RECURSIVE FractionDigits(_, _, _)
FractionDigits(r, b, n) ==
  IF n = 0 THEN <<>>
  ELSE <<(r * Base) \div b>> \o FractionDigits((r * Base) % b, b, n - 1)

\* The remainder left after these n digits.
RECURSIVE FractionRemainder(_, _, _)
FractionRemainder(r, b, n) ==
  IF n = 0 THEN r ELSE FractionRemainder((r * Base) % b, b, n - 1)

\* digits + 1 in the last place, with the carry out of the first digit.
RECURSIVE Increment(_)
Increment(ds) ==
  IF ds = <<>> THEN [digits |-> <<>>, carry |-> 1]
  ELSE LET front == SubSeq(ds, 1, Len(ds) - 1)
           last == ds[Len(ds)]
       IN  IF last + 1 < Base
           THEN [digits |-> front \o <<last + 1>>, carry |-> 0]
           ELSE [digits |-> Increment(front).digits \o <<0>>,
                 carry |-> Increment(front).carry]

\* The double nearest to (1 + 0.ds) * 2^e plus what was cut off, which is
\* above, at or below half a unit of the last place.
RoundToDouble(ds, e, rest) ==
  LET up == rest = "above" \/ (rest = "half" /\ ds[Len(ds)] % 2 = 1)
      inc == Increment(ds)
  IN  IF ~up THEN [digits |-> ds, exp |-> e]
      ELSE [digits |-> inc.digits, exp |-> e + inc.carry]

\* What is cut off when the remainder r of a division by b is left: above,
\* at or below half a unit of the last place.
CutOff(r, b) ==
  IF 2 * r > b THEN "above" ELSE IF 2 * r = b THEN "half" ELSE "below"

\* num / den for 1 <= num / den < 2, times 2^e.
Quotient(num, den, e) ==
  RoundToDouble(FractionDigits(num - den, den, Digits), e,
                CutOff(FractionRemainder(num - den, den, Digits), den))

\* a / b with its exponent e.
QuotientAt(a, b, e) ==
  IF e >= 0 THEN Quotient(a, b * Pow2(e), e) ELSE Quotient(a * Pow2(-e), b, e)

\* (double)a / b for integers a, b >= 1.
DoubleDiv(a, b) == QuotientAt(a, b, Exponent(a, b))

\* The digits of 0.ds * k + c in the last place, with the carry out of the
\* first digit.
RECURSIVE TimesDigits(_, _, _)
TimesDigits(ds, k, c) ==
  IF ds = <<>> THEN [digits |-> <<>>, carry |-> c]
  ELSE LET d == ds[Len(ds)] * k + c
           front == TimesDigits(SubSeq(ds, 1, Len(ds) - 1), k, d \div Base)
       IN  [digits |-> front.digits \o <<d % Base>>, carry |-> front.carry]

\* The exact product top.ds (top >= 1 before the point, the digits ds after
\* it) times 2^e, shifted right by s bits so that it starts with a single
\* 1, and rounded.  low is 2^s.
Shifted(top, ds, e, s, low) ==
  RoundToDouble(
    [i \in 1..Digits |->
       ((IF i = 1 THEN top - low ELSE ds[i - 1] % low) * (Base \div low))
         + (ds[i] \div low)],
    e + s,
    IF s = 0 THEN "below" ELSE CutOff(ds[Digits] % low, low))

\* The product p of the digits, with the exponent s of what stands before
\* the point.
Normalised(p, k, e, s) == Shifted(k + p.carry, p.digits, e, s, Pow2(s))

\* The product p of the digits by k, for a double of exponent e.
Product(p, k, e) == Normalised(p, k, e, Exponent(k + p.carry, 1))

\* x * (double)k for a double x and an integer k >= 1.
DoubleTimes(x, k) == Product(TimesDigits(x.digits, k, 0), k, x.exp)

\* x < y.
DoubleLess(x, y) ==
  \/ x.exp < y.exp
  \/ /\ x.exp = y.exp
     /\ \E i \in 1..Digits :
          /\ x.digits[i] < y.digits[i]
          /\ \A j \in 1..(i - 1) : x.digits[j] = y.digits[j]

\* Faulty variant of std::max: the smaller of the two.
DoubleMin(x, y) == IF DoubleLess(x, y) THEN x ELSE y

\* std::max(a, b): (a < b) ? b : a.
DoubleMax(x, y) == IF DoubleLess(x, y) THEN y ELSE x

\* round(x) of the C library (halfway cases away from zero), as an integer,
\* for a double below 2^13.
DoubleRound(x) ==
  IF x.exp < -1 THEN 0
  ELSE IF x.exp = -1 THEN 1
  ELSE Pow2(x.exp) + (x.digits[1] \div Pow2(DigitBits - x.exp))
         + ((x.digits[1] \div Pow2(DigitBits - x.exp - 1)) % 2)

\* std::max(1.0, r) for an integer r.
AtLeastOne(r) == IF r < 1 THEN 1 ELSE r

\* std::max(1.0, round(scale * side)) stored into an int.
ScaledSide(scale, side) == AtLeastOne(DoubleRound(DoubleTimes(scale, side)))

\* outputHeight and outputWidth of the shortest-side resize for its scale.
ScaledShape(scale, w, h) == <<ScaledSide(scale, h), ScaledSide(scale, w)>>

\* "Determine the shape of the output image": <<outputHeight, outputWidth>>.
OutputShape(c, w, h) ==
  IF c.resize.resizeMethod = "noResize" THEN <<h, w>>
  ELSE IF c.resize.resizeMethod = "fixedSize"
       THEN <<c.resize.resizeHeight, c.resize.resizeWidth>>
  ELSE ScaledShape(DoubleMax(DoubleDiv(c.resize.resizeHeight, w),
                             DoubleDiv(c.resize.resizeHeight, h)), w, h)

\* "Determine the aspect ratio of the crop", "Determine the crop size" and
\* the clipping: <<cropWidth, cropHeight>> as doubles.  z1 and z2 are the
\* two values of rand() / RAND_MAX.
CropSize(c, w, h, z1, z2) ==
  LET o == OutputShape(c, w, h)
      outputHeight == Fin(o[1], 1)
      outputWidth == Fin(o[2], 1)
      anisotropyRatio ==
        IF IsZero(c.minCropAnisotropy) /\ IsZero(c.maxCropAnisotropy)
        THEN Div(Div(outputWidth, outputHeight), Fin(w, h))
        ELSE Add(Mul(z1, Sub(c.maxCropAnisotropy, c.minCropAnisotropy)),
                 c.minCropAnisotropy)
      cropWidth0 == Mul(outputWidth, anisotropyRatio)
      cropHeight0 == Div(outputHeight, anisotropyRatio)
      scale == StdMin(Div(Fin(w, 1), cropWidth0), Div(Fin(h, 1), cropHeight0))
      size == Add(Mul(z2, Sub(c.maxCropSize, c.minCropSize)), c.minCropSize)
      cropWidth1 == Mul(cropWidth0, Mul(scale, size))
      cropHeight1 == Mul(cropHeight0, Mul(scale, size))
  IN  <<StdMin(Round(cropWidth1), Fin(w, 1)), StdMin(Round(cropHeight1), Fin(h, 1))>>

\* "Determine the crop location" for one axis: side - crop converted to
\* int, then the centre or a random offset (r is the value of rand()).
CropOffset(c, side, crop, r, u) ==
  LET d == ToInt(Sub(Fin(side, 1), crop), u)
  IN  IF c.cropLocation = "cropCenter" THEN CDiv(d + 1, 2) ELSE CRem(r, d + 1, u)

\* "Save": the fields of the item.  A negative offset is stored into a
\* size_t, where it is a value above every side.
Plan(c, w, h, z1, z2, r1, r2, u) ==
  LET o == OutputShape(c, w, h)
      crop == CropSize(c, w, h, z1, z2)
  IN  [outputHeight |-> o[1], outputWidth |-> o[2],
       cropWidth |-> ToInt(crop[1], u), cropHeight |-> ToInt(crop[2], u),
       cropOffsetX |-> CropOffset(c, w, crop[1], r1, u),
       cropOffsetY |-> CropOffset(c, h, crop[2], r2, u)]

\* The configurations mexFunction accepts and stores in the batch.
PlanConfigs ==
  {c \in [resize : ResizeOptions,
          minCropAnisotropy : AnisotropyValues, maxCropAnisotropy : AnisotropyValues,
          minCropSize : CropSizeValues, maxCropSize : CropSizeValues,
          cropLocation : CropLocations] :
     /\ CropAnisotropyLegal(c.minCropAnisotropy, c.maxCropAnisotropy)
     /\ CropSizeLegal(c.minCropSize, c.maxCropSize)}

\* The plan as a function of its inputs: an item whose probe has given
\* a shape of at least 1 x 1, under a configuration mexFunction accepts.
PlanInit ==
  /\ Constructed
  /\ plan \in [stage : {"input"}, config : PlanConfigs,
               width : 1..MaxSide, height : 1..MaxSide]

\* One turn of the loop of Batch::prefetch on this item.  rand() is drawn
\* for the offsets only when the crop location is random, and u only when
\* a conversion is undefined.
prefetchPlan(z1, z2, r1, r2, u) ==
  /\ plan.stage = "input"
  /\ plan.config.cropLocation = "cropCenter" => r1 = 0 /\ r2 = 0
  /\ LET crop == CropSize(plan.config, plan.width, plan.height, z1, z2)
     IN  (crop[1].k = "fin" /\ crop[2].k = "fin") => u = 0
  /\ plan' = [stage |-> "planned", config |-> plan.config,
              width |-> plan.width, height |-> plan.height,
              item |-> Plan(plan.config, plan.width, plan.height, z1, z2, r1, r2, u)]
  /\ UNCHANGED <<batchVars, batchIsInitialized, readers, pc, di, ret, callVars>>

PlanNext ==
  \E z1 \in UnitDraws, z2 \in UnitDraws, r1 \in RandDraws, r2 \in RandDraws, u \in Undefined :
    prefetchPlan(z1, z2, r1, r2, u)

PlanSpec == PlanInit /\ [][PlanNext]_vars

----------------------------------------------------------------------------
\* The fetch work of the items of a pack: which elements of cpuPack each
\* item writes (lines 780-878).  An item is a record of the fields the fetch
\* work reads, as registerItem and the plan of Batch::prefetch set them in
\* packing mode, with the set of elements written so far.

\* shape.depth of a decoded image: grey or colour.
Depths == {1, 3}

\* outputPixels - cpuPack.getMemory(), faulty variant: the slice of an item
\* sized by the depth of its image.
PackBaseByDepth(it) == it.outputHeight * it.outputWidth * it.depth * it.index

\* outputPixels - cpuPack.getMemory() (line 786).
PackBase(it) == it.outputHeight * it.outputWidth * 3 * it.index

\* imageResizeVertical(outputPixels, temp, outputWidth, shape.width,
\* outputHeight, shape.depth, ...): outputWidth rows over outputHeight
\* columns and shape.depth planes, from outputPixels on.
ResizeWrites(it) ==
  {PackBase(it) + e : e \in 0..(it.outputWidth * it.outputHeight * it.depth - 1)}

\* "Postprocess colors": channels[k] = outputPixels + n * k; the two cases
\* with K = 3 write n elements of each of the three channels, the last
\* case n elements of channel 0.
ColourWrites(it) ==
  LET n == it.outputHeight * it.outputWidth
      K == it.outputNumChannels
      channel(k) == {PackBase(it) + n * k + e : e \in 0..(n - 1)}
  IN  IF K = 3 /\ it.depth \in {1, 3}
      THEN channel(0) \cup channel(1) \cup channel(2)
      ELSE channel(0)

\* The item registered at position index (item->index = items.size()),
\* planned for a pack of fixed size rh x rw: outputHeight = resizeHeight,
\* outputWidth = resizeWidth, outputNumChannels = 3.
PackItem(index, depth, rh, rw) ==
  [index |-> index, depth |-> depth, outputHeight |-> rh, outputWidth |-> rw,
   outputNumChannels |-> 3, stage |-> "fetch", written |-> {}]

\* cpuPack: TensorShape(resizeHeight, resizeWidth, 3, getNumberOfItems()).
PackElements(rh, rw, n) == 0..(rh * rw * 3 * n - 1)

PackInit ==
  /\ Constructed
  /\ plan \in UNION {
       {[stage |-> "pack", resizeHeight |-> rh, resizeWidth |-> rw,
         items |-> [i \in 1..n |-> PackItem(i - 1, d[i], rh, rw)]] :
          rh \in 1..MaxSide, rw \in 1..MaxSide, d \in [1..n -> Depths]} :
       n \in 1..MaxLen}

\* A worker resizes the decoded image of item i into its output.
fetchResize(i) ==
  /\ plan.stage = "pack"
  /\ i \in DOMAIN plan.items
  /\ plan.items[i].stage = "fetch"
  /\ plan' = [plan EXCEPT !.items[i].stage = "resized",
                          !.items[i].written = @ \cup ResizeWrites(plan.items[i])]
  /\ UNCHANGED <<batchVars, batchIsInitialized, readers, pc, di, ret, callVars>>

\* The worker postprocesses the colours of item i in place.
fetchColour(i) ==
  /\ plan.stage = "pack"
  /\ i \in DOMAIN plan.items
  /\ plan.items[i].stage = "resized"
  /\ plan' = [plan EXCEPT !.items[i].stage = "ready",
                          !.items[i].written = @ \cup ColourWrites(plan.items[i])]
  /\ UNCHANGED <<batchVars, batchIsInitialized, readers, pc, di, ret, callVars>>

PackNext ==
  \/ \E i \in 1..MaxLen : fetchResize(i)
  \/ \E i \in 1..MaxLen : fetchColour(i)

PackSpec == PackInit /\ [][PackNext]_vars

----------------------------------------------------------------------------
\* Shorthands of the properties below.

Holding(w) == w \in DOMAIN readers /\ readers[w].pc \in {"has", "worked"}

\* The file of item i can be probed and decoded.
GoodFile(i) == ReadPixels(items[i].name) = "Success"

\* The call in progress has prepared the pool and has not failed.
PoolPrepared ==
  \/ pc \in {"filenames", "new_cycle", "register", "prefetch_sync", "reset_next",
             "reset_returned", "promote", "final_sync", "emit"}
  \/ pc \in {"clear", "clear_wait"} /\ ret \in {"new_cycle", "done"}
  \/ pc = "done" /\ result = "ok"

----------------------------------------------------------------------------
\* C1.  A call that registers its items, runs prefetch and then calls sync
\* returns from that sync: whenever the MATLAB thread is in the final
\* batch.sync() it eventually leaves it with every item ready (under
\* FairSpec: every thread that can step does).
C1_SyncReturns == (pc = "final_sync") ~> (pc = "emit")

\* C2.  When the final sync has returned, every item has been probed exactly
\* once and every item without an error has been fetched exactly once.
C2_EachPhaseOnce ==
  pc = "emit" =>
    \A i \in DOMAIN items :
      /\ items[i].probes = 1
      /\ items[i].error = "Success" => items[i].fetches = 1

\* C3.  No item is borrowed by two readers at the same time: readers that
\* hold an item hold different items, the item a reader holds is an item of
\* the batch marked borrowed, and an item marked borrowed has a holder.
C3_NoDoubleBorrow ==
  /\ \A w1, w2 \in DOMAIN readers :
       Holding(w1) /\ Holding(w2) /\ w1 # w2 => readers[w1].item # readers[w2].item
  /\ \A w \in DOMAIN readers :
       Holding(w) => /\ readers[w].item \in DOMAIN items
                     /\ items[readers[w].item].borrowed
  /\ \A i \in DOMAIN items :
       items[i].borrowed => \E w \in DOMAIN readers : Holding(w) /\ readers[w].item = i

\* Two readers hold items of a batch whose cursor prefetch() has reset.
C3_Witness ==
  /\ \E w1, w2 \in DOMAIN readers : w1 # w2 /\ Holding(w1) /\ Holding(w2)
  /\ \E i \in DOMAIN items : items[i].state = "fetch" /\ items[i].borrowed

\* C4 as claimed.  The state of an item only moves forward in the order
\* probe, fetch, ready.
StateRank(st) == IF st = "prefetch" THEN 0 ELSE IF st = "fetch" THEN 1 ELSE 2

C4_Monotone ==
  [][\A i \in DOMAIN items :
       i \in DOMAIN items' => StateRank(items'[i].state) >= StateRank(items[i].state)]_vars

\* C4 as amended.  The state of an item changes only along probe -> ready
\* (return of the probe), ready -> fetch (promotion by prefetch()) and
\* fetch -> ready (return of the fetch): never into probe, never from probe
\* to fetch, and from ready to fetch only by the promotion.
C4_Cycle ==
  [][\A i \in DOMAIN items :
       (i \in DOMAIN items' /\ items'[i].state # items[i].state) =>
          /\ <<items[i].state, items'[i].state>> \in
               {<<"prefetch", "ready">>, <<"ready", "fetch">>, <<"fetch", "ready">>}
          /\ items'[i].state = "fetch" => pc = "promote" /\ i = di + 1]_vars

\* An item that has gone through the whole cycle: probed and returned,
\* promoted, fetched and returned.
C4_Witness ==
  \E i \in DOMAIN items :
    items[i].state = "ready" /\ items[i].probes = 1 /\ items[i].fetches = 1

\* C5.  The pending batch is reused if and only if the incoming list is
\* exactly the list of the registered names.
C5_ReuseIffExactMatch ==
  /\ (pc \in {"final_sync", "emit"} /\ sameAsPrefeteched)
       => args.filenames = ItemNames(items)
  /\ (pc = "clear" /\ ret = "new_cycle") => args.filenames # ItemNames(items)

\* C6 as claimed.  A call that directly follows a normal call with the same
\* filenames registers no item and starts no new cycle, and when its sync
\* has returned no item has been probed or fetched more than once.
C6_RepeatDoesNoWork ==
  repeat # "none" =>
    /\ regs = 0
    /\ pc \notin {"new_cycle", "register", "prefetch_sync", "reset_next",
                  "reset_returned", "promote"}
    /\ pc = "emit" => \A i \in DOMAIN items : items[i].probes <= 1 /\ items[i].fetches <= 1

\* C6 as amended.  The same, for a call that directly follows a normal
\* PREFETCH call with the same filenames.
C6_RepeatAfterPrefetch ==
  repeat = "prefetch" =>
    /\ regs = 0
    /\ pc \notin {"new_cycle", "register", "prefetch_sync", "reset_next",
                  "reset_returned", "promote"}
    /\ pc = "emit" => \A i \in DOMAIN items : items[i].probes <= 1 /\ items[i].fetches <= 1

\* The sync of the second call has returned on the batch of the first.
C6_Witness ==
  /\ repeat = "prefetch"
  /\ pc = "emit"
  /\ Len(items) = MaxLen
  /\ \A i \in DOMAIN items : items[i].fetches = 1

\* C7.  When the final sync has returned and some item has failed, every
\* item whose own file is good has no error, has been probed and fetched
\* once and is ready.
C7_ErrorIsolation ==
  (pc = "emit" /\ \E k \in DOMAIN items : items[k].error # "Success") =>
    \A j \in DOMAIN items :
      GoodFile(j) => /\ items[j].error = "Success"
                     /\ items[j].probes = 1
                     /\ items[j].fetches = 1
                     /\ items[j].state = "ready"

\* C8.  A call that asks for a pack without a fixed-size resize ends in a
\* configuration error.
C8_PackNeedsFixedSize ==
  (pc = "done" /\ ~OptionsCompatible(args)) => result = "error"

\* C9.  After a call that ended in a configuration error the pool, the
\* registered items and the stored configuration are as they were at entry.
C9_RejectedTouchesNothing ==
  (pc = "done" /\ result = "error") => pre = <<Snapshot>>

\* C10.  Once a call has prepared the pool, and until it returns normally,
\* the pool holds requestedNumThreads readers, which is max(r, 1) for the
\* NumThreads value r of the call and, without the option, the size the
\* pool had at entry when it had readers.
C10_PoolSize ==
  /\ PoolPrepared => Len(readers) = requestedNumThreads /\ requestedNumThreads >= 1
  /\ pc = "filenames" =>
       IF args.numThreads = <<>>
       THEN requestedNumThreads = (IF pre[1].nreaders > 1 THEN pre[1].nreaders ELSE 1)
            /\ (pre[1].nreaders >= 1 => Len(readers) = pre[1].nreaders)
       ELSE requestedNumThreads = (IF args.numThreads[1] > 1 THEN args.numThreads[1] ELSE 1)

\* A call with NumThreads = MaxThreads has built a pool of that size, and
\* a call without the option has kept a pool of that size.
C10_Witness ==
  /\ pc = "filenames"
  /\ Len(readers) = MaxThreads
  /\ args.numThreads = <<>>

\* C11.  In individual packing, when the results of a non-prefetch call
\* have been handed over: the cell of item i holds the array of item i if
\* and only if the item has no error, every item with an error is named by
\* a warning and its cell is empty, no array is stored outside the cell
\* array, and a cell that belongs to no item is empty.
C11_OutputSlots ==
  (pc = "clear" /\ ret = "done" /\ config.packingMethod = "individualArrays") =>
    /\ \A i \in DOMAIN items :
         /\ (i \in DOMAIN out.cells /\ out.cells[i] = <<i>>) <=> items[i].error = "Success"
         /\ items[i].error # "Success" =>
              i \in out.warnings /\ (i \in DOMAIN out.cells => out.cells[i] = <<>>)
    /\ \A i \in out.warnings : i \in DOMAIN items /\ items[i].error # "Success"
    /\ \A j \in DOMAIN out.cells : j \notin DOMAIN items => out.cells[j] = <<>>
    /\ out.overrun = {}

\* C12.  Crop bounds: the plan of an item of at least 1 x 1 under an
\* accepted configuration has 0 <= cropOffsetX, cropOffsetX + cropWidth <=
\* width, 0 <= cropOffsetY and cropOffsetY + cropHeight <= height (with a
\* crop of at least 0 x 0).
C12_CropBounds ==
  plan.stage = "planned" =>
    /\ 0 <= plan.item.cropWidth /\ 0 <= plan.item.cropHeight
    /\ 0 <= plan.item.cropOffsetX
    /\ plan.item.cropOffsetX + plan.item.cropWidth <= plan.width
    /\ 0 <= plan.item.cropOffsetY
    /\ plan.item.cropOffsetY + plan.item.cropHeight <= plan.height

\* C13.  The probe phase is over before the fetch phase begins: when some
\* item of the batch is in state fetch, no item of the batch is in state
\* probe and no reader holds an item that is in state probe.
C13_ProbeBeforeFetch ==
  (\E i \in DOMAIN items : items[i].state = "fetch") =>
    /\ \A j \in DOMAIN items : items[j].state # "prefetch"
    /\ \A w \in DOMAIN readers :
         Holding(w) => items[readers[w].item].state # "prefetch"

\* The first of two items has been promoted, the second not yet, and a
\* reader is at work on the first.
C13_Witness ==
  /\ Len(items) = MaxLen
  /\ pc = "promote"
  /\ items[1].state = "fetch" /\ items[1].borrowed
  /\ items[MaxLen].state = "ready" /\ items[MaxLen].probes = 1

\* C14.  In packed GPU mode the copy of the pack to the GPU is enqueued
\* only when the fetch work of every item is over: at the return that
\* enqueues it no other item is borrowed and every item without an error
\* has had its fetch work done.
C14_UploadAfterFetch ==
  [][uploads' > uploads =>
       /\ \A i \in DOMAIN items' : ~items'[i].borrowed
       /\ \A i \in DOMAIN items' :
            items'[i].error = "Success" => items'[i].fetches = 1]_vars

\* C15.  In each phase of a batch of N >= 1 items numReturnedItems = N
\* becomes true exactly once, at the last return of the phase: it becomes
\* true only when the phase is complete (CountOnlyAtPhaseEnd), it is true
\* when the sync that ends the phase has returned, and in packed GPU mode
\* the copy of the pack has then been enqueued exactly once.
ProbeComplete ==
  /\ pc = "prefetch_sync"
  /\ \A i \in DOMAIN items : items[i].state = "ready" /\ items[i].probes = 1

FetchComplete ==
  /\ pc \notin {"register", "prefetch_sync", "reset_next", "reset_returned", "promote"}
  /\ \A i \in DOMAIN items :
       /\ items[i].state = "ready" /\ ~items[i].borrowed
       /\ items[i].error = "Success" => items[i].fetches = 1

CountOnlyAtPhaseEnd ==
  (/\ Len(items') >= 1
   /\ numReturnedItems' = Len(items')
   /\ numReturnedItems # Len(items))
    => (ProbeComplete' \/ FetchComplete')

CountAtPhaseEnd ==
  /\ (pc \in {"reset_next", "emit"} /\ Len(items) >= 1) => numReturnedItems = Len(items)
  /\ (pc = "emit" /\ Len(items) >= 1 /\ config.packingMethod = "singleArray" /\ config.gpuMode)
       => uploads = 1

C15_CountReachedOnce == []CountAtPhaseEnd /\ [][CountOnlyAtPhaseEnd]_vars

\* C15 as the code has it.  When the sync that ends a phase has returned
\* numReturnedItems equals the number of items, and in packed GPU mode the
\* copy of the pack is enqueued at most once per batch, exactly once when
\* the final sync has returned.  (While items are still being registered
\* the counter may meet the growing number of items more than once.)
C15_CountAtSync == []CountAtPhaseEnd /\ [][uploads' <= 1]_vars

C15_Witness ==
  /\ pc = "emit"
  /\ Len(items) = MaxLen
  /\ config.packingMethod = "singleArray" /\ config.gpuMode
  /\ numReturnedItems = MaxLen
  /\ uploads = 1

\* C16.  A call made with Prefetch true never waits for a worker to finish
\* an item before it returns: neither in clear() for an item still borrowed
\* nor in a sync() for an item that is not ready.
WaitsForItem ==
  \/ pc = "prefetch_sync" /\ ~SyncDone(items)
  \/ pc = "final_sync" /\ ~SyncDone(items)
  \/ pc = "clear" /\ ret = "new_cycle" /\ \E i \in DOMAIN items : items[i].borrowed
  \/ pc = "clear_wait" /\ ret = "new_cycle" /\ items[di + 1].borrowed

C16_PrefetchNeverWaits == args.prefetch => ~WaitsForItem

\* C16 as the code has it.  A call made with Prefetch true never reaches the
\* final sync and so never waits for the fetch work of its items: when it
\* returns every item has had its probe work (the sync inside prefetch()
\* waited for it) and the fetch work may still be going on.
C16_PrefetchWaitsForProbes ==
  /\ args.prefetch => pc # "final_sync"
  /\ (args.prefetch /\ pc \in {"reset_next", "reset_returned", "promote"})
       => \A i \in DOMAIN items : items[i].state # "prefetch" /\ items[i].probes = 1
  /\ (args.prefetch /\ pc = "done" /\ result = "ok")
       => \A i \in DOMAIN items : items[i].state # "prefetch" /\ items[i].probes = 1

\* A prefetch call has returned while a worker is still fetching an item.
C16_Witness ==
  /\ args.prefetch /\ pc = "done" /\ result = "ok"
  /\ Len(items) = MaxLen
  /\ \E w \in DOMAIN readers : Holding(w) /\ items[readers[w].item].state = "fetch"

\* C17.  Shutdown.  finalize sets quit only when no worker holds an item;
\* once quit is set no worker gets an item from borrowNextItem; and with
\* fair locking the exit hook, once started, joins every worker and ends
\* with an empty pool.
AtExitRunning ==
  \/ pc \in {"exit_quit", "exit_join"}
  \/ pc \in {"clear", "clear_wait"} /\ ret = "exit_quit"

QuitAfterReturns ==
  /\ (quit' /\ ~quit) => \A w \in DOMAIN readers : ~Holding(w)
  /\ quit => \A w \in DOMAIN readers' : ~(readers'[w].pc = "has")

C17_Shutdown ==
  /\ [][QuitAfterReturns]_vars
  /\ AtExitRunning ~> (pc = "idle" /\ readers = <<>>)

\* The exit hook has joined the first worker and waits for the second, which
\* was woken by notify_all and is about to call borrowNextItem.
C17_Witness ==
  /\ pc = "exit_join" /\ quit
  /\ Len(readers) = MaxThreads
  /\ di = 1
  /\ readers[1].pc = "exited"
  /\ readers[MaxThreads].pc = "loop"

\* C18.  Every write to an item's state, to the cursor nextItem and to the
\* counter numReturnedItems is made by a thread that holds the queue mutex:
\* no such write happens while another thread holds it.
WritesQueueState ==
  \/ nextItem' # nextItem
  \/ numReturnedItems' # numReturnedItems
  \/ \E i \in DOMAIN items \cap DOMAIN items' : items'[i].state # items[i].state

C18_WritesUnderMutex == [][WritesQueueState => MutexFree]_vars

\* C19.  No leaked borrows.  Every step of a worker that holds an item
\* keeps the item with that worker until returnItem, which gives back
\* exactly that item; an item is borrowed exactly when one worker holds it;
\* and with fair locking a worker that holds an item eventually holds none.
BorrowsBalanced ==
  \A i \in DOMAIN items :
    items[i].borrowed <=> Cardinality({w \in DOMAIN readers : Holding(w) /\ readers[w].item = i}) = 1

KeepsUntilReturn ==
  \A w \in DOMAIN readers :
    (Holding(w) /\ w \in DOMAIN readers') =>
      \/ Holding(w)' /\ readers'[w].item = readers[w].item /\ items'[readers[w].item].borrowed
      \/ /\ readers[w].pc = "worked" /\ ~Holding(w)'
         /\ ~items'[readers[w].item].borrowed
         /\ numReturnedItems' = numReturnedItems + 1

C19_NoLeakedBorrows ==
  /\ []BorrowsBalanced
  /\ [][KeepsUntilReturn]_vars
  /\ \A w \in Slots : Holding(w) ~> ~Holding(w)

\* Both workers hold an item: one of a file whose probe failed, borrowed
\* again in the fetch phase, the other still to be decoded.
C19_Witness ==
  /\ Len(readers) = MaxThreads /\ Len(items) = MaxLen
  /\ \A w \in DOMAIN readers : Holding(w)
  /\ \E w \in DOMAIN readers :
       /\ readers[w].pc = "has"
       /\ items[readers[w].item].error # "Success" /\ items[readers[w].item].probes = 1
  /\ \E w \in DOMAIN readers : items[readers[w].item].state = "fetch" /\ items[readers[w].item].error = "Success"

\* C20.  With fair locking a call that starts to initialise a pool slot
\* (the requested number of workers differing from the size of the pool)
\* goes on to process the filename list.
C20_PoolResizeTerminates == (pc = "reader_init") ~> (pc = "filenames")

\* C21.  An item whose error is set keeps an error until it is destroyed,
\* no worker probes or decodes it any more, and (with fair locking) it
\* still becomes ready in each phase.
ErrorSticks ==
  \A i \in DOMAIN items \cap DOMAIN items' :
    items[i].error # "Success" =>
      /\ items'[i].error # "Success"
      /\ items'[i].probes = items[i].probes
      /\ items'[i].fetches = items[i].fetches

C21_ErrorSkipsWork ==
  /\ [][ErrorSticks]_vars
  /\ \A i \in 1..MaxLen :
       (i \in DOMAIN items /\ items[i].error # "Success" /\ items[i].state # "ready")
         ~> (i \notin DOMAIN items \/ items[i].state = "ready")

\* C22.  clear never destroys an item that a worker has borrowed; from the
\* moment clear has set the cursor to the number of items until an item is
\* registered no worker gets an item; and the item a worker holds exists.
InsideClear == pc \in {"clear_wait"}

ClearDestroysReturned ==
  /\ \A i \in DOMAIN items : (i \notin DOMAIN items') => ~items[i].borrowed
  /\ (InsideClear \/ InsideClear') =>
       \A w \in DOMAIN readers \cap DOMAIN readers' :
         readers'[w].pc = "has" => readers[w].pc = "has"

HeldItemsExist ==
  \A w \in DOMAIN readers :
    Holding(w) => readers[w].item \in DOMAIN items /\ items[readers[w].item].borrowed

C22_ClearDrainsBorrows == []HeldItemsExist /\ [][ClearDestroysReturned]_vars

\* clear, called by a new call while the fetch phase of a prefetch-only call
\* is going on, waits for an item a worker is fetching.
C22_Witness ==
  /\ pc = "clear_wait" /\ ret = "new_cycle"
  /\ \E w \in DOMAIN readers :
       /\ Holding(w) /\ readers[w].item = di + 1
       /\ items[di + 1].state = "fetch" /\ items[di + 1].borrowed

\* C23.  When a call made without Prefetch has returned normally the batch
\* holds no item, the cursor and the counter are 0 and no worker holds an
\* item; and a call that finds the batch empty starts a new cycle unless
\* its list of filenames is empty.
CollectLeavesNothing ==
  (pc = "done" /\ result = "ok" /\ ~args.prefetch) =>
    /\ items = <<>>
    /\ nextItem = 0
    /\ numReturnedItems = 0
    /\ \A w \in DOMAIN readers : ~Holding(w)

EmptyBatchStartsCycle ==
  (pc = "filenames" /\ pc' # "filenames" /\ items = <<>> /\ Len(args'.filenames) > 0) =>
    (~sameAsPrefeteched' /\ pc' = "clear" /\ ret' = "new_cycle")

C23_CollectLeavesNothing == []CollectLeavesNothing /\ [][EmptyBatchStartsCycle]_vars

\* A call without Prefetch for MaxLen files has returned normally.
C23_Witness ==
  /\ pc = "done" /\ result = "ok" /\ ~args.prefetch
  /\ Len(args.filenames) = MaxLen
  /\ Len(readers) = MaxThreads
  /\ items = <<>>

\* C24.  The stored configuration of the batch changes only while the batch
\* holds no item (in Batch::init and in the setters that follow clear), and
\* a call that reuses the pending batch leaves it as it is, whatever the
\* options of that call.
ConfigFrozen ==
  config' # config =>
    /\ items = <<>> /\ items' = <<>>
    /\ pc \in {"idle", "done", "new_cycle"}

ReuseKeepsConfig ==
  (sameAsPrefeteched /\ sameAsPrefeteched' /\ pc \notin {"idle", "done"}) => config' = config

C24_ConfigFrozen == [][ConfigFrozen /\ ReuseKeepsConfig]_vars

\* A call asking for a pack reuses a batch prefetched for individual arrays.
C24_Witness ==
  /\ pc = "emit" /\ sameAsPrefeteched
  /\ Len(items) = MaxLen
  /\ args.packingMethod = "singleArray"
  /\ config.packingMethod = "individualArrays"

\* C25.  In a pack of N items of fixed size H x W the fetch work of the item
\* at index i writes only elements i*H*W*3 .. (i+1)*H*W*3 - 1 of the host
\* pack; these lie inside the pack, and two items never write the same
\* element (images of 1 or 3 channels).
C25_PackSlicesDisjoint ==
  plan.stage = "pack" =>
    LET its == plan.items
        sz == plan.resizeHeight * plan.resizeWidth * 3
    IN  /\ \A i \in DOMAIN its :
               /\ its[i].written \subseteq (its[i].index * sz)..((its[i].index + 1) * sz - 1)
               /\ its[i].written \subseteq PackElements(plan.resizeHeight, plan.resizeWidth, Len(its))
        /\ \A i, j \in DOMAIN its : i # j => its[i].written \cap its[j].written = {}

\* MaxLen items, the first grey and the last colour, all fetched: the grey
\* one has written all three channels of its slice.
C25_Witness ==
  /\ plan.stage = "pack"
  /\ Len(plan.items) = MaxLen
  /\ plan.resizeHeight = MaxSide /\ plan.resizeWidth = MaxSide
  /\ plan.items[1].depth = 1 /\ plan.items[MaxLen].depth = 3
  /\ \A i \in DOMAIN plan.items : plan.items[i].stage = "ready"
  /\ Cardinality(plan.items[1].written) = MaxSide * MaxSide * 3

----------------------------------------------------------------------------
\* The output shape of the shortest-side resize as a function of the target
\* and of the shape of the image (lines 582-589).

\* The largest target size and the largest side of an image.
MaxTarget == 3
MaxShape == 55

\* 'Resize', S with a scalar S: resizeMethod = resizeShortestSide and
\* resizeHeight = resizeWidth = S (lines 1033-1037).
ShortestSide(S) ==
  [resize |-> [resizeMethod |-> "resizeShortestSide", resizeHeight |-> S, resizeWidth |-> S]]

ResizeInit ==
  /\ Constructed
  /\ plan \in [stage : {"shape"}, resizeHeight : 1..MaxTarget,
               width : 1..MaxShape, height : 1..MaxShape]

\* "Determine the shape of the output image" for this item.
prefetchResize ==
  /\ plan.stage = "shape"
  /\ LET o == OutputShape(ShortestSide(plan.resizeHeight), plan.width, plan.height)
     IN  plan' = [stage |-> "resized", resizeHeight |-> plan.resizeHeight,
                  width |-> plan.width, height |-> plan.height,
                  outputHeight |-> o[1], outputWidth |-> o[2]]
  /\ UNCHANGED <<batchVars, batchIsInitialized, readers, pc, di, ret, callVars>>

ResizeNext == prefetchResize

ResizeSpec == ResizeInit /\ [][ResizeNext]_vars

\* max(1, round(n / d)) in exact arithmetic, halfway cases rounded up.
RoundedRatio(n, d) ==
  LET r == (2 * n + d) \div (2 * d) IN IF r < 1 THEN 1 ELSE r

\* o is an integer nearest to n / d, and at least 1.
NearestRatio(o, n, d) ==
  /\ o >= 1
  /\ 2 * (o * d - n) <= d
  /\ 2 * (n - o * d) <= d

\* C26. In shortest-side resize mode with target S, for every shape of at
\* least 1 x 1 the planned output has its shorter side equal to S and its
\* longer side equal to max(1, round(S * longer / shorter)), the output
\* height belonging to the input height and the output width to the input
\* width.
C26_ShortestSideShape ==
  plan.stage = "resized" =>
    /\ plan.width <= plan.height =>
         /\ plan.outputWidth = plan.resizeHeight
         /\ plan.outputHeight = RoundedRatio(plan.resizeHeight * plan.height, plan.width)
    /\ plan.height <= plan.width =>
         /\ plan.outputHeight = plan.resizeHeight
         /\ plan.outputWidth = RoundedRatio(plan.resizeHeight * plan.width, plan.height)

\* C26, amended: the shorter side is S and the longer side is an integer
\* nearest to S * longer / shorter; when S * longer / shorter lies exactly
\* halfway between two integers the longer side is either of them, since
\* the scale S / shorter is rounded to a double before it is multiplied.
C26_ShortestSideNearest ==
  plan.stage = "resized" =>
    /\ plan.width <= plan.height =>
         /\ plan.outputWidth = plan.resizeHeight
         /\ NearestRatio(plan.outputHeight, plan.resizeHeight * plan.height, plan.width)
    /\ plan.height <= plan.width =>
         /\ plan.outputHeight = plan.resizeHeight
         /\ NearestRatio(plan.outputWidth, plan.resizeHeight * plan.width, plan.height)

\* A portrait image whose scaled height lies exactly halfway between two
\* integers and is planned at the lower one.
C26_Witness ==
  /\ plan.stage = "resized"
  /\ plan.width < plan.height
  /\ plan.outputWidth = plan.resizeHeight
  /\ 2 * plan.resizeHeight * plan.height = (2 * plan.outputHeight + 1) * plan.width

----------------------------------------------------------------------------
\* The whole plan of one item as Batch::prefetch saves it (lines 564-668):
\* the shape and the crop as above, then the number of channels, the flip
\* and the colour shifts.

\* What a field nobody has written yet may hold.
Indeterminate == {0, 1}

\* Values of 'Saturation' and 'Contrast', of brightnessDeviation[9]
\* (no 'Brightness' and 'Brightness', 1, which sets the elements 0, 3 and
\* 8), of rand() / RAND_MAX and of the three values of vl::randn().
Deviations == {Fin(0, 1), Fin(1, 2)}
BrightnessMatrices ==
  {[i \in 1..9 |-> 0], [i \in 1..9 |-> IF i \in {1, 4, 9} THEN 1 ELSE 0]}
ShiftDraws == {Fin(0, 1), Fin(1, 1)}
NormalDraws == {<<-1, -1, -1>>, <<0, 1, -1>>, <<1, 1, 1>>}

\* x == y on finite doubles.
SameValue(x, y) == x.k = "fin" /\ y.k = "fin" /\ x.n * y.d = y.n * x.d

\* The local variables of mexFunction before any option is read (lines
\* 979-992), as Batch::init and the setters store them in the batch.
DefaultOptions ==
  [resize |-> [resizeMethod |-> "noResize", resizeHeight |-> -1, resizeWidth |-> -1],
   minCropAnisotropy |-> Fin(1, 1), maxCropAnisotropy |-> Fin(1, 1),
   minCropSize |-> Fin(1, 1), maxCropSize |-> Fin(1, 1),
   cropLocation |-> "cropCenter",
   packingMethod |-> "individualArrays", flipMode |-> FALSE,
   saturationDeviation |-> Fin(0, 1), contrastDeviation |-> Fin(0, 1),
   brightnessDeviation |-> [i \in 1..9 |-> 0]]

\* The configurations of a batch with the default crop; packing into a
\* single array is accepted with a fixed size only (line 1207).
SaveConfigs ==
  {c \in [resize : ResizeOptions,
          minCropAnisotropy : {Fin(1, 1)}, maxCropAnisotropy : {Fin(1, 1)},
          minCropSize : {Fin(1, 1)}, maxCropSize : {Fin(1, 1)},
          cropLocation : {"cropCenter"},
          packingMethod : {"individualArrays", "singleArray"}, flipMode : BOOLEAN,
          saturationDeviation : Deviations, contrastDeviation : Deviations,
          brightnessDeviation : BrightnessMatrices] :
     c.packingMethod = "singleArray" => c.resize.resizeMethod = "fixedSize"}

\* Faulty variant: the deviation itself, without the leading 1.
ColourShiftFromZero(deviation, z) ==
  Mul(deviation, Sub(Mul(Fin(2, 1), z), Fin(1, 1)))

\* 1. + deviation * (2. * (double)rand() / RAND_MAX - 1.).
ColourShift(deviation, z) ==
  Add(Fin(1, 1), Mul(deviation, Sub(Mul(Fin(2, 1), z), Fin(1, 1))))

\* The sum over j < numChannels of brightnessDeviation[i + 3 * j] * w[i],
\* i counted from 0.
RECURSIVE BrightnessSum(_, _, _, _)
BrightnessSum(B, w, i, j) ==
  IF j = 0 THEN 0
  ELSE BrightnessSum(B, w, i, j - 1) + B[i + 3 * (j - 1) + 1] * w[i + 1]

\* item->brightnessShift after the loops of lines 659-667: the first
\* numChannels components are assigned, the others keep what they held.
BrightnessShift(B, w, numChannels, held) ==
  [i \in 1..3 |-> IF i <= numChannels THEN BrightnessSum(B, w, i - 1, numChannels)
                  ELSE held[i]]

\* item->outputNumChannels (line 647).
OutputNumChannels(c, depth) ==
  IF c.packingMethod = "individualArrays" THEN depth ELSE 3

\* "Save" and "Color processing" for the shape and the crop p.  over is
\* rand() > RAND_MAX/2.
Saved(p, c, numChannels, held, over, zs, zc, wn) ==
  [outputHeight |-> p.outputHeight, outputWidth |-> p.outputWidth,
   outputNumChannels |-> numChannels,
   cropWidth |-> p.cropWidth, cropHeight |-> p.cropHeight,
   cropOffsetX |-> p.cropOffsetX, cropOffsetY |-> p.cropOffsetY,
   flip |-> c.flipMode /\ over,
   saturationShift |-> ColourShift(c.saturationDeviation, zs),
   contrastShift |-> ColourShift(c.contrastDeviation, zc),
   brightnessShift |-> BrightnessShift(c.brightnessDeviation, wn, numChannels, held)]

\* The plan of one item as the loop of Batch::prefetch leaves it.
SavedPlan(c, w, h, depth, held, z1, z2, r1, r2, u, over, zs, zc, wn) ==
  Saved(Plan(c, w, h, z1, z2, r1, r2, u), c, OutputNumChannels(c, depth),
        held, over, zs, zc, wn)

\* An item whose probe has given a shape of at least 1 x 1 with one or
\* three channels; new Item leaves brightnessShift unwritten (lines
\* 246-256).
SaveInit ==
  /\ Constructed
  /\ plan \in [stage : {"probed"}, config : SaveConfigs,
               width : 1..MaxSide, height : 1..MaxSide, depth : Depths,
               held : {<<g, g, g>> : g \in Indeterminate}]

\* One turn of the loop of Batch::prefetch on this item.  rand() is not
\* drawn for the offsets of a centred crop, and for the flip only when
\* flipMode is set.
prefetchSave(z1, z2, over, zs, zc, wn) ==
  /\ plan.stage = "probed"
  /\ ~plan.config.flipMode => ~over
  /\ plan' = [stage |-> "saved", config |-> plan.config,
              width |-> plan.width, height |-> plan.height, depth |-> plan.depth,
              held |-> plan.held,
              item |-> SavedPlan(plan.config, plan.width, plan.height, plan.depth,
                                 plan.held, z1, z2, 0, 0, 0, over, zs, zc, wn)]
  /\ UNCHANGED <<batchVars, batchIsInitialized, readers, pc, di, ret, callVars>>

SaveNext ==
  \E z1 \in ShiftDraws, z2 \in ShiftDraws, over \in BOOLEAN,
     zs \in ShiftDraws, zc \in ShiftDraws, wn \in NormalDraws :
    prefetchSave(z1, z2, over, zs, zc, wn)

SaveSpec == SaveInit /\ [][SaveNext]_vars

\* The plan leaves the image as it is, but for the brightness shift.
IdentityPlan ==
  /\ plan.item.outputHeight = plan.height
  /\ plan.item.outputWidth = plan.width
  /\ plan.item.outputNumChannels = plan.depth
  /\ plan.item.cropWidth = plan.width
  /\ plan.item.cropHeight = plan.height
  /\ plan.item.cropOffsetX = 0
  /\ plan.item.cropOffsetY = 0
  /\ plan.item.flip = FALSE
  /\ SameValue(plan.item.contrastShift, Fin(1, 1))
  /\ SameValue(plan.item.saturationShift, Fin(1, 1))

\* C27. With the default configuration every probed item gets the identity
\* plan: the output has the shape and the channels of the input, the crop
\* is the whole image at offset 0, there is no flip, the contrast and the
\* saturation shift are 1 and the brightness shift is 0.
C27_DefaultIdentityPlan ==
  (plan.stage = "saved" /\ plan.config = DefaultOptions) =>
    /\ IdentityPlan
    /\ \A i \in 1..3 : plan.item.brightnessShift[i] = 0

\* C27, amended: the brightness shift is 0 in the components of the
\* channels the output has; the plan does not write the other components.
C27_DefaultIdentityChannels ==
  (plan.stage = "saved" /\ plan.config = DefaultOptions) =>
    /\ IdentityPlan
    /\ \A i \in 1..plan.item.outputNumChannels : plan.item.brightnessShift[i] = 0
    /\ \A i \in (plan.item.outputNumChannels + 1)..3 :
         plan.item.brightnessShift[i] = plan.held[i]

\* A grey image planned under the default configuration, whose item held
\* a non-zero value where the brightness shift of a third channel is.
C27_Witness ==
  /\ plan.stage = "saved"
  /\ plan.config = DefaultOptions
  /\ plan.depth = 1
  /\ plan.width # plan.height
  /\ plan.held[3] # 0
  /\ plan.item.brightnessShift[1] = 0

----------------------------------------------------------------------------
\* The crop ranges from the options of mexFunction to the setters of the
\* batch (lines 1100-1123, 1223-1224 and 505-520).

\* x <= y on doubles: false when either is NaN.
LessEq(x, y) ==
  /\ ~IsNaN(x) /\ ~IsNaN(y)
  /\ \/ y.k = "inf"
     \/ x.k = "fin" /\ x.n * y.d <= y.n * x.d

\* The values an element of 'CropAnisotropy' or 'CropSize' can hold.
RangeValues == AnisotropyValues \cup CropSizeValues \cup {NaN}

\* The assertions of Batch::setCropAnisotropy and Batch::setCropSize.
SetCropAnisotropyAsserts(minAnisotropy, maxAnisotropy) ==
  /\ LessEq(minAnisotropy, maxAnisotropy)
  /\ LessEq(Fin(0, 1), minAnisotropy) /\ LessEq(minAnisotropy, Fin(1, 1))

SetCropSizeAsserts(minSize, maxSize) ==
  /\ LessEq(minSize, maxSize)
  /\ LessEq(Fin(0, 1), minSize) /\ LessEq(minSize, Fin(1, 1))
  /\ LessEq(Fin(0, 1), maxSize) /\ LessEq(maxSize, Fin(1, 1))

\* A call with 'CropAnisotropy' and 'CropSize'.
OptionInit ==
  /\ Constructed
  /\ plan \in [stage : {"options"},
               minCropAnisotropy : RangeValues, maxCropAnisotropy : RangeValues,
               minCropSize : RangeValues, maxCropSize : RangeValues]

\* The option loop: vlmxError on a range that is not legal.
parseCropOptions ==
  /\ plan.stage = "options"
  /\ plan' = [plan EXCEPT !.stage =
       IF /\ CropAnisotropyLegal(plan.minCropAnisotropy, plan.maxCropAnisotropy)
          /\ CropSizeLegal(plan.minCropSize, plan.maxCropSize)
       THEN "accepted" ELSE "error"]
  /\ UNCHANGED <<batchVars, batchIsInitialized, readers, pc, di, ret, callVars>>

\* batch.setCropAnisotropy and batch.setCropSize.  A failed assertion
\* aborts the process, unless the build defines NDEBUG.
setCropRanges(ndebug) ==
  /\ plan.stage = "accepted"
  /\ plan' = [plan EXCEPT !.stage =
       IF \/ ndebug
          \/ /\ SetCropAnisotropyAsserts(plan.minCropAnisotropy, plan.maxCropAnisotropy)
             /\ SetCropSizeAsserts(plan.minCropSize, plan.maxCropSize)
       THEN "set" ELSE "aborted"]
  /\ UNCHANGED <<batchVars, batchIsInitialized, readers, pc, di, ret, callVars>>

OptionNext ==
  \/ parseCropOptions
  \/ \E ndebug \in BOOLEAN : setCropRanges(ndebug)

OptionSpec == OptionInit /\ [][OptionNext]_vars

\* C28. Every crop anisotropy range and crop size range that passes the
\* option validation satisfies the assertions of setCropAnisotropy and
\* setCropSize, so that no accepted configuration trips an assertion.
C28_AcceptedRangesPassAsserts ==
  /\ plan.stage = "accepted" =>
       /\ SetCropAnisotropyAsserts(plan.minCropAnisotropy, plan.maxCropAnisotropy)
       /\ SetCropSizeAsserts(plan.minCropSize, plan.maxCropSize)
  /\ plan.stage # "aborted"

----------------------------------------------------------------------------
\* C29. An item in state fetch that no reader has borrowed is at or after
\* the cursor: the cursor never passes an item before Batch::prefetch has
\* promoted it, so that every promoted item is handed to a reader while it
\* is in state fetch.
C29_FetchItemsAheadOfCursor ==
  \A i \in DOMAIN items :
    (items[i].state = "fetch" /\ ~items[i].borrowed) => i - 1 >= nextItem

\* C30. The cursor and the counter of returned items lie between 0 and
\* the number of items in every state, between the two resets of
\* Batch::prefetch and inside Batch::clear included.
C30_CursorAndCountInRange ==
  /\ 0 <= nextItem /\ nextItem <= Len(items)
  /\ 0 <= numReturnedItems /\ numReturnedItems <= Len(items)

====
